---- MODULE Spec2Model ----
(***************************************************************************)
(* One peer of the car-info peer-to-peer network (src/rust-car-p2p/src/    *)
(* main.rs): its record store, the Response Relay, the response tasks it   *)
(* spawns, the messages it publishes on the topic and its mDNS/floodsub    *)
(* membership view.  Other peers appear as the sources of inbound topic    *)
(* messages and as the peers mDNS discovers.                               *)
(*                                                                         *)
(* Text (command lines, peer addresses, record fields) is a sequence of    *)
(* one-character strings, so that starts_with, strip_prefix, split, trim   *)
(* and parse are computed as the code computes them.  A JSON object on the *)
(* wire is a record whose domain is the set of keys present.               *)
(***************************************************************************)
EXTENDS Integers, Sequences, FiniteSets, Bags, TLC

VARIABLES
    store,       \* decoded content of ./carinfo.json (Carinfos)
    tasks,       \* bag of the response tasks respond_with_public_Carinfo spawned
    relay,       \* the unbounded channel response_sender -> response_rcv
    published,   \* payloads handed to swarm.floodsub.publish, in order
    view,        \* floodsub partial view (peers the topic delivers to)
    mdnsNodes,   \* peers mDNS currently holds as live (mdns.has_node)
    mdnsEvents,  \* MdnsEvents generated but not yet injected
    lastMdns,    \* the MdnsEvent inject_event handled last
    output,      \* the response shown to the user last (info! of a response for me)
    running,     \* the Control Loop is in its running state (main has not panicked)
    hist         \* history: how the event handled last ended, and the store the
                 \* commands alone would have left

vars == <<store, tasks, relay, published, view, mdnsNodes, mdnsEvents, lastMdns,
          output, running>>

\* the program's state with the history kept beside it
hvars == <<vars, hist>>

\* the discovery side of the behaviour
disc == <<view, mdnsNodes, mdnsEvents, lastMdns>>

----------------------------------------------------------------------------
\* Bounds of the model: the records of the store, the tasks under way, the
\* entries of the relay, the messages of a run (see Room) and the discovery
\* events not yet injected.

MaxStore == 3
MaxTasks == 2
MaxRelay == 2
MaxPublished == 2
MaxMdnsEvents == 2

----------------------------------------------------------------------------
\* Text helpers.

Range(s) == {s[i] : i \in 1..Len(s)}

\* str::starts_with
starts_with(s, p) == Len(s) >= Len(p) /\ SubSeq(s, 1, Len(p)) = p

None == [some |-> FALSE, v |-> <<>>]
Some(x) == [some |-> TRUE, v |-> x]

\* str::strip_prefix
strip_prefix(s, p) ==
    IF starts_with(s, p) THEN Some(SubSeq(s, Len(p) + 1, Len(s))) ELSE None

IsSpace(c) == c = " "

RECURSIVE trim_start(_)
trim_start(s) ==
    IF s # <<>> /\ IsSpace(Head(s)) THEN trim_start(Tail(s)) ELSE s

RECURSIVE trim_end(_)
trim_end(s) ==
    IF s # <<>> /\ IsSpace(s[Len(s)]) THEN trim_end(SubSeq(s, 1, Len(s) - 1)) ELSE s

\* str::trim
trim(s) == trim_end(trim_start(s))

\* str::split on a one-character pattern: the pieces between the separators.
RECURSIVE split(_, _)
split(s, sep) ==
    IF \E i \in 1..Len(s) : s[i] = sep
    THEN LET i == CHOOSE k \in 1..Len(s) :
                      s[k] = sep /\ \A j \in 1..(k - 1) : s[j] # sep
         IN  <<SubSeq(s, 1, i - 1)>> \o split(SubSeq(s, i + 1, Len(s)), sep)
    ELSE <<s>>

Digits == <<"0", "1", "2", "3", "4", "5", "6", "7", "8", "9">>

DigitVal(c) == (CHOOSE i \in 1..10 : Digits[i] = c) - 1

IsDigit(c) == \E i \in 1..10 : Digits[i] = c

RECURSIVE DigitsVal(_)
DigitsVal(s) ==
    IF s = <<>> THEN 0
    ELSE 10 * DigitsVal(SubSeq(s, 1, Len(s) - 1)) + DigitVal(s[Len(s)])

\* str::parse::<usize>: an optional "+", then one or more decimal digits.
parse_usize(s) ==
    LET body == IF s # <<>> /\ Head(s) = "+" THEN Tail(s) ELSE s
    IN  IF body # <<>> /\ \A i \in 1..Len(body) : IsDigit(body[i])
        THEN [ok |-> TRUE, v |-> DigitsVal(body)]
        ELSE [ok |-> FALSE, v |-> 0]

----------------------------------------------------------------------------
\* Identity and the peers of the network.

\* PEER_ID.to_string(), the local address
PEER_ID == <<"A">>

\* Another peer, and a peer whose address has the local address as a prefix.
PeerB == <<"B">>
PeerAx == <<"A", "x">>

Peers == {PeerB, PeerAx}

----------------------------------------------------------------------------
\* Data model.

\* struct Recipe / Carinfo
Carinfo(id, make, model, horsepower, public) ==
    [id |-> id, make |-> make, model |-> model, horsepower |-> horsepower,
     public |-> public]

\* enum ListMode
ALL == [tag |-> "ALL", arg |-> <<>>]
One(x) == [tag |-> "One", arg |-> x]

\* struct ListRequest
ListRequest(mode) == [mode |-> mode]

\* struct ListResponse
ListResponse(mode, data, receiver) ==
    [mode |-> mode, data |-> data, receiver |-> receiver]

Ok(x) == [ok |-> TRUE, v |-> x]
Err == [ok |-> FALSE, v |-> <<>>]

----------------------------------------------------------------------------
\* serde_json for the wire messages.  A unit variant is the JSON string of
\* its name, a newtype variant the one-key object {"One": arg}; a struct is
\* an object with one key per field, and decoding a struct ignores the keys
\* it does not know and fails when a field is missing or ill-typed.

ListMode_to_json(m) ==
    IF m.tag = "ALL" THEN [str |-> "ALL"] ELSE [key |-> "One", val |-> m.arg]

ListMode_from_json(j) ==
    IF DOMAIN j = {"str"} /\ j.str = "ALL" THEN Ok(ALL)
    ELSE IF DOMAIN j = {"key", "val"} /\ j.key = "One" THEN Ok(One(j.val))
    ELSE Err

\* serde_json::to_string(&req)
to_string_ListRequest(req) == [mode |-> ListMode_to_json(req.mode)]

\* serde_json::to_string(&resp)
to_string_ListResponse(resp) ==
    [mode |-> ListMode_to_json(resp.mode), data |-> resp.data,
     receiver |-> resp.receiver]

\* serde_json::from_slice::<ListResponse>
from_slice_ListResponse(p) ==
    IF {"mode", "data", "receiver"} \subseteq DOMAIN p
       /\ ListMode_from_json(p.mode).ok
    THEN Ok(ListResponse(ListMode_from_json(p.mode).v, p.data, p.receiver))
    ELSE Err

\* a mode that is missing or is no ListMode taken for ALL
from_slice_ListRequest_default(p) ==
    IF "mode" \in DOMAIN p /\ ListMode_from_json(p.mode).ok
    THEN Ok(ListRequest(ListMode_from_json(p.mode).v))
    ELSE Ok(ListRequest(ALL))

\* serde_json::from_slice::<ListRequest>
from_slice_ListRequest(p) ==
    IF "mode" \in DOMAIN p /\ ListMode_from_json(p.mode).ok
    THEN Ok(ListRequest(ListMode_from_json(p.mode).v))
    ELSE Err

----------------------------------------------------------------------------
\* The record store.

\* read_local_Carinfo: the file's content, or an error (the file is missing,
\* unreadable or does not decode).
read_local_Carinfo == {Ok(store), Err}

\* write_local_Carinfo: the file is replaced, or an error leaves it as it was.
write_local_Carinfo == {TRUE, FALSE}

\* local_Carinfo.iter().max_by_key(|r| r.id)
MaxId(carinfo) ==
    CHOOSE m \in {carinfo[i].id : i \in 1..Len(carinfo)} :
        \A i \in 1..Len(carinfo) : carinfo[i].id <= m

\* the number of records taken for the next id
NewIdByCount(carinfo) == Len(carinfo)

\* new_id in create_new_Carinfo
new_id(carinfo) == IF carinfo = <<>> THEN 0 ELSE MaxId(carinfo) + 1

\* the collection create_new_Carinfo writes back
Created(carinfo, make, model, horsepower) ==
    Append(carinfo, Carinfo(new_id(carinfo), make, model, horsepower, FALSE))

\* the visibility of the record switched instead of set
PublishedToggle(carinfo, id) ==
    [i \in 1..Len(carinfo) |->
        IF carinfo[i].id = id THEN [carinfo[i] EXCEPT !.public = ~carinfo[i].public]
        ELSE carinfo[i]]

\* the filter on the id left out: every record is made public
PublishedAll(carinfo, id) ==
    [i \in 1..Len(carinfo) |-> [carinfo[i] EXCEPT !.public = TRUE]]

\* the collection publish_Carinfo writes back
Published(carinfo, id) ==
    [i \in 1..Len(carinfo) |->
        IF carinfo[i].id = id THEN [carinfo[i] EXCEPT !.public = TRUE]
        ELSE carinfo[i]]

\* the filter left out: every record goes into the response
PublicOfUnfiltered(carinfo) == carinfo

\* carinfo.into_iter().filter(|r| r.public).collect()
PublicOf(carinfo) == SelectSeq(carinfo, LAMBDA r : r.public)

----------------------------------------------------------------------------
\* The command lines typed at the peer.

CmdLsP == <<"l", "s", " ", "p">>
CmdLsR == <<"l", "s", " ", "r">>
CmdLsRSp == <<"l", "s", " ", "r", " ">>
CmdCreateR == <<"c", "r", "e", "a", "t", "e", " ", "r">>
CmdPublishR == <<"p", "u", "b", "l", "i", "s", "h", " ", "r">>
TextAll == <<"a", "l", "l">>

\* "ls r all", "ls r B"
LineLsAll == CmdLsRSp \o TextAll
LineLsB == CmdLsRSp \o PeerB

\* "create r a|m|h|z"
LineCreate == CmdCreateR \o <<" ", "a", "|", "m", "|", "h", "|", "z">>

\* "publish r 0 ", "publish r 7" (an id no record has)
LinePublish0 == CmdPublishR \o <<" ", "0", " ">>
LinePublish7 == CmdPublishR \o <<" ", "7">>

Lines ==
    { CmdLsP,
      CmdLsR,
      CmdLsR \o <<"x">>,
      LineLsAll,
      LineLsB,
      LineCreate,
      CmdCreateR \o <<" ", "a", "|", "m">>,
      LinePublish0,
      LinePublish7,
      CmdPublishR \o <<" ", "x">>,
      <<"q", "u", "i", "t">> }

----------------------------------------------------------------------------
\* Command handlers.  Each is the whole handler: the parse, the store access
\* with either outcome, the publish.

\* handle_list_peers: logs mdns.discovered_nodes()
handle_list_peers(line) ==
    UNCHANGED vars

\* the "all" arm left out: every argument is taken for an address
ListRequestOneOnly(cmd) ==
    LET rest == strip_prefix(cmd, CmdLsRSp)
    IN  IF ~rest.some THEN None ELSE Some(ListRequest(One(rest.v)))

\* the request handle_list_Carinfo publishes, if any
list_request(cmd) ==
    LET rest == strip_prefix(cmd, CmdLsRSp)
    IN  IF ~rest.some THEN None
        ELSE IF rest.v = TextAll THEN Some(ListRequest(ALL))
        ELSE Some(ListRequest(One(rest.v)))

\* handle_list_Carinfo
handle_list_Carinfo(cmd) ==
    LET req == list_request(cmd)
    IN  IF req.some
        THEN /\ Len(published) < MaxPublished
             /\ published' = Append(published, to_string_ListRequest(req.v))
             /\ UNCHANGED <<store, tasks, relay, disc,
                            output, running>>
        ELSE \* the records read, or the read error, are logged
             /\ \E r \in read_local_Carinfo : TRUE
             /\ UNCHANGED vars

\* a failed read taken for an empty collection, and the record written
create_on_default(make, model, horsepower) ==
    { [store |-> IF w
                 THEN Created(IF r.ok THEN r.v ELSE <<>>, make, model, horsepower)
                 ELSE store,
       ok |-> w] :
      r \in read_local_Carinfo, w \in write_local_Carinfo }

\* create_new_Carinfo: the store it leaves and its result
create_new_Carinfo(make, model, horsepower) ==
    { [store |-> IF r.ok /\ w
                 THEN Created(r.v, make, model, horsepower) ELSE store,
       ok |-> r.ok /\ w] :
      r \in read_local_Carinfo, w \in write_local_Carinfo }

\* handle_create_Carinfo
handle_create_Carinfo(cmd) ==
    LET rest == strip_prefix(cmd, CmdCreateR)
        elements == split(rest.v, "|")
    IN  /\ rest.some
        /\ IF Len(elements) < 3
           THEN UNCHANGED store
           ELSE /\ Len(store) < MaxStore
                /\ \E res \in create_new_Carinfo(elements[1], elements[2],
                                                 elements[3]) :
                     store' = res.store
        /\ UNCHANGED <<tasks, relay, published, disc,
                       output, running>>

\* publish_Carinfo: the store it leaves and its result
publish_Carinfo(id) ==
    { [store |-> IF r.ok /\ w THEN Published(r.v, id) ELSE store,
       ok |-> r.ok /\ w] :
      r \in read_local_Carinfo, w \in write_local_Carinfo }

\* handle_publish_Carinfo
handle_publish_Carinfo(cmd) ==
    LET rest == strip_prefix(cmd, CmdPublishR)
        id == parse_usize(trim(rest.v))
    IN  /\ rest.some
        /\ IF id.ok
           THEN \E res \in publish_Carinfo(id.v) : store' = res.store
           ELSE UNCHANGED store
        /\ UNCHANGED <<tasks, relay, published, disc,
                       output, running>>

\* the loop left on a line it does not know
Quit(line) ==
    /\ running' = FALSE
    /\ UNCHANGED <<store, tasks, relay, published, disc, output>>

\* error!("unknown command")
unknown_command(line) ==
    UNCHANGED vars

\* which arm of match line.as_str() takes the line
Dispatch(line) ==
    IF line = CmdLsP THEN "ls p"
    ELSE IF starts_with(line, CmdLsR) THEN "ls r"
    ELSE IF starts_with(line, CmdCreateR) THEN "create r"
    ELSE IF starts_with(line, CmdPublishR) THEN "publish r"
    ELSE "unknown"

\* EventType::Input(line) => match line.as_str()
Input(line) ==
    CASE Dispatch(line) = "ls p" -> handle_list_peers(line)
      [] Dispatch(line) = "ls r" -> handle_list_Carinfo(line)
      [] Dispatch(line) = "create r" -> handle_create_Carinfo(line)
      [] Dispatch(line) = "publish r" -> handle_publish_Carinfo(line)
      [] OTHER -> unknown_command(line)

InputListPeers == \E line \in Lines : Dispatch(line) = "ls p" /\ Input(line)

InputListCarinfo == \E line \in Lines : Dispatch(line) = "ls r" /\ Input(line)

InputCreate == \E line \in Lines : Dispatch(line) = "create r" /\ Input(line)

InputPublish == \E line \in Lines : Dispatch(line) = "publish r" /\ Input(line)

InputUnknown == \E line \in Lines : Dispatch(line) = "unknown" /\ Input(line)

----------------------------------------------------------------------------
\* Inbound topic messages (FloodsubEvent::Message) and the response tasks.

\* msg.source of the inbound messages
Sources == Peers

Rec0 == Carinfo(0, <<" ", "a">>, <<"m">>, <<"h">>, TRUE)

\* The payloads other peers put on the topic: requests, responses, a request
\* object with extra keys, an object whose mode is no ListMode, and bytes
\* that are neither.
BroadcastRequests == {to_string_ListRequest(ListRequest(ALL))}

DirectedRequests ==
    { to_string_ListRequest(ListRequest(One(PEER_ID))),
      to_string_ListRequest(ListRequest(One(PeerAx))) }

Payloads ==
    BroadcastRequests \cup DirectedRequests \cup
    { to_string_ListResponse(ListResponse(ALL, <<Rec0>>, PEER_ID)),
      to_string_ListResponse(ListResponse(ALL, <<Rec0>>, PeerAx)),
      to_string_ListResponse(ListResponse(One(PEER_ID), <<>>, PeerB)),
      [mode |-> ListMode_to_json(ALL), data |-> <<Rec0>>],
      [mode |-> [str |-> "all"]],
      [junk |-> TRUE] }

\* the task tokio::spawn starts in respond_with_public_Carinfo: resp is the
\* response it built from what it read (None before the read)
Task(receiver) == [receiver |-> receiver, resp |-> None]

\* the task spawned twice for one request
RespondTwice(receiver) ==
    tasks (+) SetToBag({Task(receiver)}) (+) SetToBag({Task(receiver)})

\* respond_with_public_Carinfo(sender, receiver)
respond_with_public_Carinfo(receiver) == tasks (+) SetToBag({Task(receiver)})

\* a prefix match in place of the equality
ForMePrefix(resp) == starts_with(resp.receiver, PEER_ID)

\* resp.receiver == PEER_ID.to_string()
ForMe(resp) == resp.receiver = PEER_ID

\* the comparison with PEER_ID left out: every directed request is answered
AnswersAny(mode) == TRUE

\* match req.mode: does this peer answer the request?
Answers(mode) ==
    IF mode.tag = "ALL" THEN TRUE ELSE mode.arg = PEER_ID

\* the ListRequest decode tried first
ClassifyRequestFirst(p) ==
    IF from_slice_ListRequest(p).ok
    THEN IF Answers(from_slice_ListRequest(p).v.mode) THEN "request answered"
         ELSE "request ignored"
    ELSE IF from_slice_ListResponse(p).ok
    THEN IF ForMe(from_slice_ListResponse(p).v) THEN "response for me"
         ELSE "response ignored"
    ELSE "dropped"

\* how inject_event classifies a payload
Classify(p) ==
    IF from_slice_ListResponse(p).ok
    THEN IF ForMe(from_slice_ListResponse(p).v) THEN "response for me"
         ELSE "response ignored"
    ELSE IF from_slice_ListRequest(p).ok
    THEN IF Answers(from_slice_ListRequest(p).v.mode) THEN "request answered"
         ELSE "request ignored"
    ELSE "dropped"

\* NetworkBehaviourEventProcess<FloodsubEvent>::inject_event
inject_event_Floodsub(source, p) ==
    /\ IF Classify(p) = "request answered"
       THEN /\ BagCardinality(tasks) < MaxTasks
            /\ tasks' = respond_with_public_Carinfo(source)
       ELSE UNCHANGED tasks
    /\ IF Classify(p) = "response for me"
       THEN output' = Some(from_slice_ListResponse(p).v)
       ELSE UNCHANGED output
    /\ UNCHANGED <<store, relay, published, disc, running>>

\* FloodsubEvent::Message(msg) with msg.source among sources and msg.data
\* among payloads
FloodsubMessage(sources, payloads) == \E source \in sources, p \in payloads :
    inject_event_Floodsub(source, p)

\* the response addressed to the local peer instead of the requester
ResponseToSelf(carinfo, receiver) ==
    ListResponse(ALL, PublicOf(carinfo), PEER_ID)

\* let resp = ListResponse { mode: ListMode::ALL, receiver, data: ... }
Response(carinfo, receiver) == ListResponse(ALL, PublicOf(carinfo), receiver)

\* read_local_carinfo().await in task t: Ok(carinfo) and the response is
\* built, or Err(e) and the task ends
TaskReadStep(t) ==
    /\ BagIn(t, tasks)
    /\ ~t.resp.some
    /\ \E r \in read_local_Carinfo :
         tasks' = IF r.ok
                  THEN (tasks (-) SetToBag({t})) (+)
                       SetToBag({[t EXCEPT !.resp = Some(Response(r.v, t.receiver))]})
                  ELSE tasks (-) SetToBag({t})
    /\ UNCHANGED <<store, relay, published, disc, output, running>>

TaskRead == \E t \in BagToSet(tasks) : TaskReadStep(t)

\* the task writes the records it kept back to the file before it sends
TaskSendWritesBack(t) ==
    /\ BagIn(t, tasks)
    /\ t.resp.some
    /\ Len(relay) < MaxRelay
    /\ relay' = Append(relay, t.resp.v)
    /\ tasks' = tasks (-) SetToBag({t})
    /\ store' = t.resp.v.data
    /\ UNCHANGED <<published, disc, output, running>>

\* sender.send(resp) in task t, which then ends
TaskSendStep(t) ==
    /\ BagIn(t, tasks)
    /\ t.resp.some
    /\ Len(relay) < MaxRelay
    /\ relay' = Append(relay, t.resp.v)
    /\ tasks' = tasks (-) SetToBag({t})
    /\ UNCHANGED <<store, published, disc, output, running>>

TaskSend == \E t \in BagToSet(tasks) : TaskSendStep(t)

\* the entry taken from the relay and not published
RelayResponseDropped ==
    /\ relay # <<>>
    /\ relay' = Tail(relay)
    /\ UNCHANGED <<store, tasks, published, disc, output, running>>

\* the relay emptied from its newest entry
RelayResponseNewestFirst ==
    /\ relay # <<>>
    /\ Len(published) < MaxPublished
    /\ published' = Append(published, to_string_ListResponse(relay[Len(relay)]))
    /\ relay' = SubSeq(relay, 1, Len(relay) - 1)
    /\ UNCHANGED <<store, tasks, disc, output, running>>

\* response_rcv.recv() => EventType::Response(resp): publish it
RelayResponse ==
    /\ relay # <<>>
    /\ Len(published) < MaxPublished
    /\ published' = Append(published, to_string_ListResponse(Head(relay)))
    /\ relay' = Tail(relay)
    /\ UNCHANGED <<store, tasks, disc, output, running>>

----------------------------------------------------------------------------
\* Discovery.  mDNS keeps its own book of live peers and generates Discovered
\* and Expired events; the swarm injects them into the behaviour later.

PeerLists == {<<p>> : p \in Peers} \cup {<<p, q>> : p \in Peers, q \in Peers}

MdnsEvent(kind, list) == [kind |-> kind, list |-> list]

\* mDNS hears the peers of list: they are live, a Discovered event is queued
MdnsDiscover == \E list \in PeerLists :
    /\ Len(mdnsEvents) < MaxMdnsEvents
    /\ mdnsNodes' = mdnsNodes \cup Range(list)
    /\ mdnsEvents' = Append(mdnsEvents, MdnsEvent("Discovered", list))
    /\ UNCHANGED <<store, tasks, relay, published, view, lastMdns, output,
                   running>>

\* the records of the peers of list time out: an Expired event is queued
MdnsExpire == \E list \in PeerLists :
    /\ Len(mdnsEvents) < MaxMdnsEvents
    /\ Range(list) \subseteq mdnsNodes
    /\ mdnsNodes' = mdnsNodes \ Range(list)
    /\ mdnsEvents' = Append(mdnsEvents, MdnsEvent("Expired", list))
    /\ UNCHANGED <<store, tasks, relay, published, view, lastMdns, output,
                   running>>

\* self.mdns.has_node(&peer)
has_node(peer) == peer \in mdnsNodes

\* for (peer, _addr) in discovered_list: add_node_to_partial_view(peer)
Discovered(list) == view \cup Range(list)

\* the has_node check left out
ExpiredAlways(list) == view \ Range(list)

\* for (peer, _addr) in expired_list: remove it unless mDNS still has it
Expired(list) == view \ {peer \in Range(list) : ~has_node(peer)}

\* NetworkBehaviourEventProcess<MdnsEvent>::inject_event
inject_event_Mdns(event) ==
    /\ mdnsEvents # <<>>
    /\ event = Head(mdnsEvents)
    /\ view' = IF event.kind = "Discovered" THEN Discovered(event.list)
               ELSE Expired(event.list)
    /\ mdnsEvents' = Tail(mdnsEvents)
    /\ lastMdns' = event
    /\ UNCHANGED <<store, tasks, relay, published, mdnsNodes, output, running>>

MdnsInject == \E event \in Range(mdnsEvents) : inject_event_Mdns(event)

----------------------------------------------------------------------------
\* The stores a peer starts with: the file holds an empty collection, or
\* records written earlier (ids need not be dense or in order).

InitStores ==
    { <<>>,
      <<Carinfo(2, <<" ", "b">>, <<"m">>, <<"h">>, TRUE),
        Carinfo(0, <<" ", "a">>, <<"m">>, <<"h">>, FALSE)>> }

Init ==
    /\ store \in InitStores
    /\ tasks = EmptyBag
    /\ relay = <<>>
    /\ published = <<>>
    /\ view = {}
    /\ mdnsNodes = {}
    /\ mdnsEvents = <<>>
    /\ lastMdns = MdnsEvent("None", <<>>)
    /\ output = None
    /\ running = TRUE
    /\ hist = [last |-> "none", commands |-> store]

\* line.expect("can get line").expect("can read line from stdin"): the
\* command line is closed or cannot be read, main panics and the process ends
\* with its tasks and whatever the relay holds
StdinClosed ==
    /\ running
    /\ running' = FALSE
    /\ UNCHANGED <<store, tasks, relay, published, disc, output>>

\* A step of the program while main runs, the history left as it is.
Step(A) == running /\ A /\ UNCHANGED hist

\* `published` is the whole history of what the peer sent and is bounded, so
\* a run takes up a new request, of the user or of a peer, only while
\* `published` has room for it and for every answer under way: nothing that
\* was started is ever held up by the bound.
Room ==
    Len(published) + Len(relay) + BagCardinality(tasks) < MaxPublished

\* The loop races the command line, the swarm and the relay; the response
\* tasks run beside it, for as long as main runs.  The topic delivers
\* messages of sources with data among payloads.
Loop(sources, payloads) ==
    \/ Step(InputListPeers)
    \/ Step(Room /\ InputListCarinfo)
    \/ Step(InputCreate)
    \/ Step(InputPublish)
    \/ Step(InputUnknown)
    \/ Step(Room /\ FloodsubMessage(sources, payloads))
    \/ Step(TaskRead)
    \/ Step(TaskSend)
    \/ Step(RelayResponse)

\* A network of two peers: peer B sends messages of every kind.
Next ==
    \/ Loop({PeerB}, Payloads)
    \/ Step(StdinClosed)

Spec == Init /\ [][Next]_hvars

\* A network on which the other peers send directed requests only.
NextDirected == Loop(Sources, DirectedRequests)

SpecDirected == Init /\ [][NextDirected]_hvars

\* A network on which the other peers send broadcast requests only.
NextBroadcast == Loop(Sources, BroadcastRequests)

SpecBroadcast == Init /\ [][NextBroadcast]_hvars

\* Discovery shares no state with the message protocol, so its claims are
\* checked on the discovery events alone.
NextMdns ==
    \/ Step(MdnsDiscover)
    \/ Step(MdnsExpire)
    \/ Step(MdnsInject)

SpecMdns == Init /\ [][NextMdns]_hvars

----------------------------------------------------------------------------
\* The loop under the scheduling of tokio::select!, which polls its ready
\* branches in random order: a branch that stays ready is taken in the end,
\* so the relay branch is weakly fair, however many commands and messages
\* keep arriving.  The network is that of Spec and the command line stays
\* open.
NextLive == Loop({PeerB}, Payloads)

SpecLive == Init /\ [][NextLive]_hvars /\ WF_hvars(Step(RelayResponse))

----------------------------------------------------------------------------
\* The program with its history kept.  Some arms leave no trace in the
\* program's state (an unknown command and a failed command are only logged,
\* a payload that is dropped or a response for somebody else not even that),
\* so the history records how the event handled last ended: hist.last.
\* hist.commands is the store that the create and publish commands that went
\* through would have left had nothing else touched the file.

\* the elements of a `create r` line
Elements(line) == split(strip_prefix(line, CmdCreateR).v, "|")

\* how handling the line ended (a create that goes through adds a record)
InputOutcome(line) ==
    IF Dispatch(line) = "unknown" THEN "unknown command"
    ELSE IF Dispatch(line) = "create r" /\ Len(Elements(line)) >= 3
            /\ store' = store
    THEN "create failed"
    ELSE "handled"

\* the command of the line applied to the store the commands alone left
CommandsAlone(line) ==
    IF store' = store THEN hist.commands
    ELSE IF Dispatch(line) = "create r"
    THEN Created(hist.commands, Elements(line)[1], Elements(line)[2],
                 Elements(line)[3])
    ELSE IF Dispatch(line) = "publish r"
    THEN Published(hist.commands,
                   parse_usize(trim(strip_prefix(line, CmdPublishR).v)).v)
    ELSE hist.commands

\* how handling the payload ended
MessageOutcome(p) ==
    IF Classify(p) \in {"dropped", "response ignored"} THEN Classify(p)
    ELSE "handled"

HistoryInput == \E line \in Lines :
    /\ running
    /\ Dispatch(line) = "ls r" => Room
    /\ Input(line)
    /\ hist' = [last |-> InputOutcome(line), commands |-> CommandsAlone(line)]

HistoryMessage == \E p \in Payloads :
    /\ running
    /\ Room
    /\ inject_event_Floodsub(PeerB, p)
    /\ hist' = [hist EXCEPT !.last = MessageOutcome(p)]

HistoryTaskRead ==
    /\ running
    /\ TaskRead
    /\ hist' = [hist EXCEPT !.last = IF BagCardinality(tasks') < BagCardinality(tasks)
                                     THEN "task read failed" ELSE "handled"]

HistoryTaskSend ==
    /\ running
    /\ TaskSend
    /\ hist' = [hist EXCEPT !.last = "handled"]

HistoryRelayResponse ==
    /\ running
    /\ RelayResponse
    /\ hist' = [hist EXCEPT !.last = "handled"]

\* The network of Spec, with the history kept.
NextHistory ==
    \/ HistoryInput
    \/ HistoryMessage
    \/ HistoryTaskRead
    \/ HistoryTaskSend
    \/ HistoryRelayResponse
    \/ Step(StdinClosed)

SpecHistory == Init /\ [][NextHistory]_hvars

----------------------------------------------------------------------------
\* Step shapes used by the properties below.

Last(s) == s[Len(s)]

\* the tasks a step starts or moves on, and the tasks it takes away
NewTasks == BagToSet(tasks' (-) tasks)
GoneTasks == BagToSet(tasks (-) tasks')

\* a response task ended in this step
TaskEnded == BagCardinality(tasks') < BagCardinality(tasks)

\* the responses the peer has put into the relay or published
ResponsesOut ==
    Range(relay) \cup
    { from_slice_ListResponse(p).v :
        p \in {q \in Range(published) : from_slice_ListResponse(q).ok} }

OnlyPublicOf(data, carinfo) ==
    \A i \in 1..Len(data) :
        data[i].public /\ \E j \in 1..Len(carinfo) : carinfo[j] = data[i]

\* a task that finishes after a successful read leaves exactly its own
\* response at the end of the relay; the relay grows in no other way
OneEntryPerBuiltResponse ==
    /\ \A t \in GoneTasks :
         t.resp.some /\ TaskEnded => relay' = Append(relay, t.resp.v)
    /\ Len(relay') > Len(relay) =>
         /\ TaskEnded
         /\ BagCardinality(tasks) = BagCardinality(tasks') + 1
         /\ \E t \in GoneTasks : t.resp.some /\ relay' = Append(relay, t.resp.v)

\* a response is built from the public records of the store as read
BuiltFromPublicRecords ==
    \A t \in NewTasks :
        t.resp.some =>
            /\ OnlyPublicOf(t.resp.v.data, store)
            /\ \A j \in 1..Len(store) :
                 store[j].public => \E i \in 1..Len(t.resp.v.data) :
                                        t.resp.v.data[i] = store[j]

----------------------------------------------------------------------------
\* C1: every ListResponse in the Response Relay or published on the topic
\* holds only records of this peer's store that are public; a private
\* record is in no response.  (Records are never removed nor made private
\* again, so a record public when the task read the store is public in the
\* store now.)
C1_OnlyPublicRecords ==
    \A resp \in ResponsesOut : OnlyPublicOf(resp.data, store)

\* a response with records was published while the store holds a private one
C1_Witness ==
    /\ \E p \in Range(published) :
         from_slice_ListResponse(p).ok /\ from_slice_ListResponse(p).v.data # <<>>
    /\ \E j \in 1..Len(store) : ~store[j].public

----------------------------------------------------------------------------
----------------------------------------------------------------------------
\* C3 as stated: a ListRequest ALL always produces exactly one relay entry,
\* also when the store cannot be read: every response task that ends has
\* put one entry into the relay.
C3_Original ==
    [][ /\ \A source \in Sources, p \in BroadcastRequests :
             inject_event_Floodsub(source, p) =>
                 tasks' = tasks (+) SetToBag({[receiver |-> source,
                                              resp |-> None]})
        /\ TaskEnded => Len(relay') = Len(relay) + 1
      ]_vars

\* C3 amended: a ListRequest ALL starts exactly one response task at the
\* peer that receives it, whoever sent it; the task puts exactly one entry
\* into the relay when its store read succeeds, and none when the read
\* fails.
C3_BroadcastRequest ==
    [][ /\ \A source \in Sources, p \in BroadcastRequests :
             inject_event_Floodsub(source, p) =>
                 /\ relay' = relay
                 /\ tasks' = tasks (+) SetToBag({[receiver |-> source,
                                                  resp |-> None]})
        /\ OneEntryPerBuiltResponse
        /\ \A t \in GoneTasks : ~t.resp.some /\ TaskEnded => relay' = relay
      ]_vars

\* the relay holds the answer to the request of the peer whose address
\* starts with the local one
C3_Witness == relay # <<>> /\ relay[1].receiver = PeerAx

----------------------------------------------------------------------------
\* C4: an inbound ListResponse is shown to the user if and only if its
\* receiver is exactly the local address; whatever its receiver, handling
\* it adds nothing to the relay, publishes nothing, starts no task and
\* leaves the store as it was.
C4_ResponseForMe ==
    [][ \A source \in Sources, p \in Payloads :
          {"mode", "data", "receiver"} \subseteq DOMAIN p
          /\ ListMode_from_json(p.mode).ok
          /\ inject_event_Floodsub(source, p)
          => /\ output' = IF p.receiver = PEER_ID
                          THEN Some(ListResponse(ListMode_from_json(p.mode).v,
                                                 p.data, p.receiver))
                          ELSE output
             /\ UNCHANGED <<relay, published, store, tasks>>
      ]_vars

\* a response addressed to the local peer has been shown
C4_Witness == output.some /\ output.v.receiver = PEER_ID /\ output.v.data # <<>>

----------------------------------------------------------------------------
\* C5: a request from peer B that this peer answers starts a task whose
\* response has receiver B (the source of the message) and, as data, the
\* public records of the store as the task read it; the task puts that
\* response into the relay, and what the loop publishes when it takes the
\* entry from the relay decodes to exactly that entry.
C5_AnswerToRequester ==
    [][ /\ \A source \in Sources, p \in Payloads :
             tasks' # tasks /\ inject_event_Floodsub(source, p) =>
                 tasks' = tasks (+) SetToBag({[receiver |-> source,
                                              resp |-> None]})
        /\ \A t \in NewTasks :
             t.resp.some =>
                 /\ t.resp.v.receiver = t.receiver
                 /\ t.resp.v.data = SelectSeq(store, LAMBDA r : r.public)
                 /\ \E g \in GoneTasks : g.receiver = t.receiver /\ ~g.resp.some
        /\ Len(relay') > Len(relay) =>
             \E g \in GoneTasks : g.resp.some /\ relay' = Append(relay, g.resp.v)
        /\ Len(published') > Len(published) /\ relay' # relay =>
             /\ relay # <<>>
             /\ relay' = Tail(relay)
             /\ Len(published') = Len(published) + 1
             /\ SubSeq(published', 1, Len(published)) = published
             /\ from_slice_ListResponse(Last(published')) = Ok(Head(relay))
      ]_vars

\* the answer to peer B, with a record in it, has been published
C5_Witness ==
    \E p \in Range(published) :
        /\ from_slice_ListResponse(p).ok
        /\ from_slice_ListResponse(p).v.receiver = PeerB
        /\ from_slice_ListResponse(p).v.data # <<>>

----------------------------------------------------------------------------
\* C6 as stated: the mode of a response is the mode of the request it
\* answers.  On a network where every request is directed, the requests
\* this peer answers have mode One(PEER_ID), so every response in the relay
\* would carry One(PEER_ID).
C6_ModeOfRequest ==
    \A i \in 1..Len(relay) : relay[i].mode = One(PEER_ID)

----------------------------------------------------------------------------
\* C7: whenever the store gains a record, the records it had are all still
\* there, unchanged and in order, followed by exactly one new record, which
\* is private and whose id is 0 if the store was empty and else one more
\* than the greatest id in it.
C7_Create ==
    [][ /\ Len(store') # Len(store) =>
             /\ Len(store') = Len(store) + 1
             /\ SubSeq(store', 1, Len(store)) = store
             /\ ~Last(store').public
             /\ IF store = <<>> THEN Last(store').id = 0
                ELSE /\ \A i \in 1..Len(store) : store[i].id < Last(store').id
                     /\ \E i \in 1..Len(store) :
                          Last(store').id = store[i].id + 1
        /\ store' # store /\ Input(LineCreate) =>
             /\ Len(store') = Len(store) + 1
             /\ Last(store').make = <<" ", "a">>
             /\ Last(store').model = <<"m">>
             /\ Last(store').horsepower = <<"h">>
      ]_vars

\* a record was created in a store whose ids were neither dense nor in order
C7_Witness ==
    /\ Len(store) = 3
    /\ store[1].id = 2
    /\ store[2].id = 0
    /\ store[3].id = 3

----------------------------------------------------------------------------
\* C8: `publish r 0` (its store access succeeding) makes the record with id
\* 0 public and leaves every other record, and every other field of that
\* record, as it was; `publish r 7`, an id no record has, leaves the store
\* content as it was.  No step that keeps the number of records changes
\* anything but a visibility, from private to public.
C8_Publish ==
    [][ /\ store' # store /\ Input(LinePublish0) =>
             /\ Len(store') = Len(store)
             /\ \A i \in 1..Len(store) :
                  store'[i] = IF store[i].id = 0
                              THEN [store[i] EXCEPT !.public = TRUE]
                              ELSE store[i]
        /\ store' # store => ~Input(LinePublish7)
        /\ Len(store') = Len(store) =>
             \A i \in 1..Len(store) :
                 \/ store'[i] = store[i]
                 \/ store'[i] = [store[i] EXCEPT !.public = TRUE]
      ]_vars

\* of two records, the one with id 0 has been made public and the other is
\* still private
C8_Witness ==
    /\ Len(store) = 2
    /\ store[1].id = 0 /\ store[1].public
    /\ ~store[2].public

----------------------------------------------------------------------------
\* C9: injecting Discovered adds its peers to the view (a peer already in
\* the view stays, the view is unchanged when all are); injecting Expired
\* removes exactly those of its peers that mDNS does not hold as live, so a
\* peer discovered again before its expiry is injected stays in the view.
\* Nothing else changes the view.
C9_MembershipView ==
    [][ /\ \A event \in Range(mdnsEvents) :
             inject_event_Mdns(event) =>
                 /\ event.kind = "Discovered" =>
                      /\ view' = view \cup Range(event.list)
                      /\ Range(event.list) \subseteq view => view' = view
                 /\ event.kind = "Expired" =>
                      /\ \A peer \in Peers :
                           peer \in view' <=>
                               /\ peer \in view
                               /\ peer \notin Range(event.list)
                                  \/ peer \in mdnsNodes
                      /\ \A peer \in mdnsNodes : peer \in view => peer \in view'
        /\ view' # view => mdnsEvents # <<>> /\ mdnsEvents' = Tail(mdnsEvents)
      ]_vars

\* the event injected last was the expiry of a peer that is still in the view
C9_Witness ==
    /\ lastMdns.kind = "Expired"
    /\ \E peer \in Range(lastMdns.list) : peer \in view

----------------------------------------------------------------------------
\* C10: `ls r all` publishes exactly one message, a ListRequest with mode
\* ALL; `ls r B` publishes exactly one, a ListRequest with mode One(B);
\* `ls r` publishes nothing; none of them adds to the relay, starts a task
\* or changes the store.
PublishedOne(req) ==
    /\ Len(published') = Len(published) + 1
    /\ SubSeq(published', 1, Len(published)) = published
    /\ ~from_slice_ListResponse(Last(published')).ok
    /\ from_slice_ListRequest(Last(published')) = Ok(req)

C10_ListCommands ==
    [][ /\ Input(LineLsAll) => PublishedOne(ListRequest(ALL))
        /\ Input(LineLsB) => PublishedOne(ListRequest(One(PeerB)))
        /\ Input(CmdLsR) => published' = published
        /\ \A line \in {LineLsAll, LineLsB, CmdLsR} :
             Input(line) => UNCHANGED <<relay, tasks, store>>
      ]_vars

\* the request for the records of peer B has been published
C10_Witness ==
    /\ published # <<>>
    /\ from_slice_ListRequest(Last(published)) = Ok(ListRequest(One(PeerB)))

----------------------------------------------------------------------------
\* C11: a command line the loop does not know leaves the loop in its running
\* state and leaves the store, the Response Relay and what has been
\* published as they were.
C11_UnknownCommand ==
    [][ \A line \in Lines :
          Dispatch(line) = "unknown" /\ Input(line)
          => /\ running'
             /\ UNCHANGED <<store, relay, published>>
      ]_hvars

\* an unknown command was handled last, with records in the store, a
\* response in the relay and a message published, and the loop runs
C11_Witness ==
    /\ hist.last = "unknown command"
    /\ running
    /\ store # <<>>
    /\ relay # <<>>
    /\ published # <<>>

----------------------------------------------------------------------------
\* C12: what has been published stays published, in its order, and a new
\* message goes last; `ls r all` and `ls r B` publish their request in the
\* step of the command, so requests go out in the order of the commands; a
\* response enters the relay at its end, in the step in which its task
\* completes, and leaves it from the front, in the step in which it is
\* published, so responses go out in the order their tasks completed.
C12_PublishOrder ==
    [][ /\ published' # published =>
             /\ Len(published') = Len(published) + 1
             /\ SubSeq(published', 1, Len(published)) = published
        /\ \A line \in {LineLsAll, LineLsB} :
             published' # published /\ Input(line) =>
                 Last(published') = to_string_ListRequest(list_request(line).v)
        /\ relay' # relay =>
             \/ /\ \E t \in GoneTasks :
                     t.resp.some /\ relay' = Append(relay, t.resp.v)
                /\ BagCardinality(tasks') = BagCardinality(tasks) - 1
                /\ published' = published
             \/ /\ relay # <<>>
                /\ relay' = Tail(relay)
                /\ published' =
                       Append(published, to_string_ListResponse(Head(relay)))
                /\ tasks' = tasks
      ]_hvars

\* two tasks ran at once for two requesters; the one for the peer with the
\* longer address completed first, with what it had read before the store
\* gained a public record, and the two responses were published in that
\* order
C12_Witness ==
    /\ Len(published) = 2
    /\ from_slice_ListResponse(published[1]).ok
    /\ from_slice_ListResponse(published[2]).ok
    /\ from_slice_ListResponse(published[1]).v.receiver = PeerAx
    /\ from_slice_ListResponse(published[2]).v.receiver = PeerB
    /\ Len(from_slice_ListResponse(published[2]).v.data)
           > Len(from_slice_ListResponse(published[1]).v.data)
    /\ relay = <<>>

----------------------------------------------------------------------------
\* C13: a store read or write that fails is contained in its handler.  No
\* command that touches the store ends the loop, whatever the outcome.  When
\* a create fails, every failing outcome of create_new_Carinfo is the store
\* as it was, and the step leaves the store, the tasks, the relay and what
\* has been published as they were, the loop running.  A task whose read
\* fails ends with the store, the relay and what has been published as they
\* were.  When the store changes, the outcomes of create_new_Carinfo and of
\* publish_Carinfo that went through are the whole result of the command,
\* and the store is its content before with one record more, or with a
\* record made public.
C13_StoreFailureContained ==
    [][ /\ ~running' =>
             \A line \in Lines :
                 Dispatch(line) \in {"ls r", "create r", "publish r"}
                 => ~Input(line)
        /\ hist' # hist /\ hist'.last = "create failed" =>
             /\ running'
             /\ UNCHANGED <<store, tasks, relay, published>>
             /\ \A res \in create_new_Carinfo(<<"a">>, <<"m">>, <<"h">>) :
                  ~res.ok => res.store = store
             /\ \E res \in create_new_Carinfo(<<"a">>, <<"m">>, <<"h">>) : ~res.ok
        /\ hist' # hist /\ hist'.last = "task read failed" =>
             /\ running'
             /\ UNCHANGED <<store, relay, published>>
        /\ store' # store =>
             /\ \A res \in create_new_Carinfo(<<"a">>, <<"m">>, <<"h">>) :
                  res.ok => res.store = Created(store, <<"a">>, <<"m">>, <<"h">>)
             /\ \A res \in publish_Carinfo(0) :
                  res.store = IF res.ok THEN Published(store, 0) ELSE store
             /\ \/ /\ Len(store') = Len(store) + 1
                   /\ SubSeq(store', 1, Len(store)) = store
                \/ store' = Published(store, 0)
      ]_hvars

\* a create command failed last: the records the store had are all there
\* and the loop runs
C13_Witness ==
    /\ hist.last = "create failed"
    /\ running
    /\ Len(store) = 2
    /\ BagCardinality(tasks) > 0

----------------------------------------------------------------------------
\* C14: a payload with no mode, or with a mode that is no ListMode, decodes
\* as neither a ListResponse nor a ListRequest; handling it adds nothing to
\* the relay, starts no response task, publishes nothing, shows nothing and
\* leaves the store as it was.
Undecodable(p) == "mode" \notin DOMAIN p \/ ~ListMode_from_json(p.mode).ok

C14_UndecodableDropped ==
    [][ \A source \in Sources, p \in Payloads :
          Undecodable(p) /\ inject_event_Floodsub(source, p)
          => UNCHANGED <<relay, tasks, published, store, output, running>>
      ]_hvars

\* a payload was dropped last, while a task was under way and the store
\* held records, and nothing was put into the relay or published
C14_Witness ==
    /\ hist.last = "dropped"
    /\ store # <<>>
    /\ BagCardinality(tasks) = 1
    /\ relay = <<>>
    /\ published = <<>>

----------------------------------------------------------------------------
\* C15: an entry leaves the relay only from the front and only in the step
\* that publishes it, once, as the last message published; an entry never
\* leaves its place in the relay otherwise; and, the relay branch being
\* weakly fair, whenever the relay holds an entry a further response is
\* published: the entry at the front is published in the end, and so is
\* every entry behind it.
ResponsesPublished ==
    Cardinality({i \in 1..Len(published) : from_slice_ListResponse(published[i]).ok})

C15_RelayPublished ==
    /\ [][ relay' # relay =>
             \/ /\ Len(relay') = Len(relay) + 1
                /\ SubSeq(relay', 1, Len(relay)) = relay
                /\ published' = published
             \/ /\ relay # <<>>
                /\ relay' = Tail(relay)
                /\ published' =
                       Append(published, to_string_ListResponse(Head(relay)))
         ]_hvars
    /\ \A n \in 0..MaxPublished :
         (relay # <<>> /\ ResponsesPublished = n) ~> (ResponsesPublished > n)

\* two responses built from different reads of the store went through the
\* relay and both are published, in their order, and the relay is empty
C15_Witness ==
    /\ relay = <<>>
    /\ tasks = EmptyBag
    /\ Len(published) = 2
    /\ ResponsesPublished = 2
    /\ published[1].data = <<>>
    /\ published[2].data # <<>>

----------------------------------------------------------------------------
\* C16: the ids of the records of the store are pairwise distinct, in every
\* state reached from a store that is empty or holds distinct ids (dense
\* or not, in order or not), whatever creates, publishes, inbound messages
\* and task steps led to it.
C16_DistinctIds ==
    \A i \in 1..Len(store), j \in 1..Len(store) :
        i # j => store[i].id # store[j].id

\* a record was created in a store whose ids were neither dense nor in
\* order and its record 0 made public, a response is in the relay and a
\* task under way
C16_Witness ==
    /\ Len(store) = 3
    /\ store[1].id = 2
    /\ store[2].id = 0 /\ store[2].public
    /\ store[3].id = 3
    /\ relay # <<>>
    /\ tasks # EmptyBag

----------------------------------------------------------------------------
\* C17: no step removes a record or makes a public record private: after
\* every step the records the store had are all there, at their places and
\* with their ids, makes, models and horsepowers, and those that were
\* public are public.
C17_NeverRemovedNeverPrivate ==
    [][ /\ Len(store') >= Len(store)
        /\ \A i \in 1..Len(store) :
             /\ store'[i].id = store[i].id
             /\ store'[i].make = store[i].make
             /\ store'[i].model = store[i].model
             /\ store'[i].horsepower = store[i].horsepower
             /\ store[i].public => store'[i].public
      ]_hvars

\* the first of three created records was made public and is public still,
\* after two more creates and an answer built from the store
C17_Witness ==
    /\ Len(store) = 3
    /\ store[1].id = 0 /\ store[1].public
    /\ store[2].id = 1 /\ ~store[2].public
    /\ store[3].id = 2 /\ ~store[3].public
    /\ relay # <<>>
    /\ relay[1].data = <<store[1]>>

----------------------------------------------------------------------------
\* C18: a payload with a mode, data and a receiver decodes as a ListResponse
\* and, having a mode, would decode as a ListRequest too, one this peer
\* would answer when the mode is ALL or One(local address).  It is never
\* taken for a request: handling it starts no response task and leaves the
\* relay, what has been published and the store as they were; when its
\* receiver is not the local address nothing is shown either.
C18_ResponseBeforeRequest ==
    [][ \A source \in Sources, p \in Payloads :
          {"mode", "data", "receiver"} \subseteq DOMAIN p
          /\ ListMode_from_json(p.mode).ok
          /\ Answers(ListMode_from_json(p.mode).v)
          /\ inject_event_Floodsub(source, p)
          => /\ tasks' = tasks
             /\ UNCHANGED <<relay, published, store, running>>
             /\ p.receiver # PEER_ID => output' = output
      ]_hvars

\* a response addressed to another peer was handled last and no task has
\* been started, nothing is in the relay and nothing was published
C18_Witness ==
    /\ hist.last = "response ignored"
    /\ tasks = EmptyBag
    /\ relay = <<>>
    /\ published = <<>>
    /\ store # <<>>

----------------------------------------------------------------------------
\* C19: response tasks only read the store.  Whatever tasks run beside the
\* commands, and whenever they read, the store is what the create and
\* publish commands that went through leave when applied alone, in the
\* order they were issued: no update of a command is lost or overwritten.
C19_TasksOnlyRead == store = hist.commands

\* two tasks are under way, one of them holding what it read before a
\* later command changed the store, and the store has the records of three
\* creates, the first made public
C19_Witness ==
    /\ BagCardinality(tasks) = 2
    /\ \E t \in BagToSet(tasks) :
         t.resp.some /\ t.resp.v.data # PublicOf(store)
    /\ Len(store) = 3
    /\ store[1].public
    /\ store[3].id = 2

====
